---- MODULE Spec2Model ----
(***************************************************************************)
(* Dataset preparation scripts of scripts/custom_dataset_prep:             *)
(*   process_data.py        the Interleaver (round-robin micro-chunks)     *)
(*   merge_partitions.py    the streaming Merger and the Shuffler          *)
(*   balance_partitions.py  the Balancer (collect / distribute / verify)   *)
(*   filter_incomplete_queries.py  the filter of queries and neighbors     *)
(* A document is the pair <<owner, serial>>; the pair is its id.  A data   *)
(* frame is the sequence of its rows.  A file is a record                  *)
(* [exists, rows].                                                         *)
(***************************************************************************)
EXTENDS Integers, Sequences, FiniteSets, TLC

\* ------------------------------------------------------------ bounds
MaxDocs == 5        \* rows of an account's first source file: 0..MaxDocs
MaxShards == 2      \* num_shards of an Interleaver run: 1..MaxShards
MaxRounds == 2      \* rounds_per_shard of an Interleaver run: 1..MaxRounds
MaxPartDocs == 3    \* rows of a per-account partition file: 0..MaxPartDocs
MaxTarget == 1      \* target counts tried besides the scenario's: 1..MaxTarget
MaxQueries == 2     \* rows of the queries file and of the neighbors file: 0..MaxQueries
MaxNeighbors == 2   \* neighbors of a query, and the threshold: 0..MaxNeighbors, 1..MaxNeighbors
MaxRestarts == 1    \* interruptions of a merge-and-shuffle run: 0..MaxRestarts

\* ------------------------------------------------------------ configuration
NUM_PARTITIONS == 10
BATCH_SIZE == 2     \* scaled down from 5000 so that a file spans several batches
NUM_SOURCE_PARTITIONS == 5      \* range(5): partitions 00-04 give excess
LAST_PARTITION == 9             \* partition 09 takes all remaining excess

\* ------------------------------------------------------------ state
VARIABLES
    \* process_data.py
    files_by_account,   \* account -> sequence of source files [readable, rows]
    num_shards,
    rounds_per_shard,
    ipc,                \* position of process_data
    acc_pos,            \* next account of the load loop
    data_map,           \* account -> loaded, deduplicated frame
    chunk_sizes,        \* account -> micro-chunk size
    file_idx,           \* next shard of the round-robin loop
    train_part,         \* shard index -> train_part_<i>.parquet
    created_files,      \* names (indices) of the files written
    run,                \* 1 in the first run, 2 in the repeated run
    prev_part,          \* the shard files the first run left
    \* merge_partitions.py
    argv,               \* sys.argv[1:]: <<>> or <<partition index>>
    part_files,         \* account dir -> partition -> {id}_part_<p>.parquet
    rng,                \* the permutation family the generator seeded with 42 yields
    final_dataset,      \* partition -> /data/final_dataset/shuffle_train_<p>.parquet
    mpc,                \* position of merge_partitions.main
    partitions_to_process,
    part_pos,           \* position of the main loop in partitions_to_process
    m_acc,              \* next account dir of merge_partition's loop
    reading,            \* inside the try block of the current part file
    batch_no,           \* batches read from the current part file
    writer,             \* the ParquetWriter is open
    total_docs,
    accounts_processed,
    file_docs,
    partition_counts,
    shuffle_ret,        \* what the last shuffle_file call returned
    summary,            \* what the final summary of merge_partitions reported
    restarts,           \* how often the run was interrupted and started again
    \* balance_partitions.py
    TARGET_DOCS_PER_FILE,   \* the configured target count T
    balanced,           \* partition -> /data/final_dataset_balanced/shuffle_train_<p>.parquet
    bpc,                \* position of balance_partitions.main
    partition_idx,      \* loop variable of the phase loops
    excess_dfs,
    excess_combined,
    total_excess,
    excess_offset,
    verified,           \* what the verification pass reported: [total, min, max]
    \* filter_incomplete_queries.py
    queries_file,       \* --queries: [exists, rows], a row is [id, query]
    neighbors_file,     \* --neighbors: [exists, rows], a row is [id, neighbors]
    min_neighbors,      \* --min-neighbors
    output_dir,         \* --output-dir: [queries, neighbors, id_mapping], three files
    fpc,                \* position of filter_incomplete_queries.main
    query_idx,          \* loop variable i of the filter loop
    new_id,
    filtered_queries,
    filtered_neighbors,
    id_mapping,
    removed_count,
    exit_status         \* <<>> while running, <<status>> once the process has ended

interleaver_vars == <<files_by_account, num_shards, rounds_per_shard, ipc, acc_pos,
                      data_map, chunk_sizes, file_idx, train_part, created_files,
                      run, prev_part>>

merge_vars == <<argv, part_files, rng, final_dataset, mpc, partitions_to_process,
                part_pos, m_acc, reading, batch_no, writer, total_docs,
                accounts_processed, file_docs, partition_counts, shuffle_ret, summary,
                restarts>>

\* final_dataset is the Merger's output folder and the Balancer's input folder.
balance_vars == <<TARGET_DOCS_PER_FILE, balanced, bpc, partition_idx, excess_dfs,
                  excess_combined, total_excess, excess_offset, verified>>

filter_vars == <<queries_file, neighbors_file, min_neighbors, output_dir, fpc, query_idx,
                 new_id, filtered_queries, filtered_neighbors, id_mapping, removed_count,
                 exit_status>>

vars == <<interleaver_vars, merge_vars, balance_vars, filter_vars>>

\* ------------------------------------------------------------ frames
Min(a, b) == IF a < b THEN a ELSE b

Range(s) == {s[i] : i \in DOMAIN s}

Reverse(s) == [i \in 1..Len(s) |-> s[Len(s) + 1 - i]]

NoFile == [exists |-> FALSE, rows |-> <<>>]

File(df) == [exists |-> TRUE, rows |-> df]

\* (a bug: a slice that ignores its offset)
slice_from_start(df, offset, length) == SubSeq(df, 1, Min(length, Len(df)))

\* (a bug: a slice that runs to the end of the frame)
slice_to_end(df, offset, length) == SubSeq(df, offset + 1, Len(df))

\* polars DataFrame.slice(offset, length), offset >= 0: the rows offset ..
\* offset+length-1 (0-based) that exist; empty when offset is past the end.
slice(df, offset, length) == SubSeq(df, offset + 1, Min(offset + length, Len(df)))

\* (a bug: keeping one row too many)
head_one_more(df, n) == SubSeq(df, 1, Min(n + 1, Len(df)))

\* (a bug: losing the first row of the remainder)
tail_one_less(df, n) == SubSeq(df, Len(df) - Min(n, Len(df)) + 2, Len(df))

\* polars DataFrame.head(n) and DataFrame.tail(n), n >= 0.
head(df, n) == SubSeq(df, 1, Min(n, Len(df)))

tail(df, n) == SubSeq(df, Len(df) - Min(n, Len(df)) + 1, Len(df))

\* (a bug: the frames concatenated in reverse list order)
RECURSIVE concat_reversed(_)
concat_reversed(dfs) == IF dfs = <<>> THEN <<>> ELSE concat_reversed(Tail(dfs)) \o Head(dfs)

\* pl.concat of a non-empty list of frames: the rows of each frame, in list order.
RECURSIVE concat(_)
concat(dfs) == IF dfs = <<>> THEN <<>> ELSE Head(dfs) \o concat(Tail(dfs))

\* (a bug: a deduplication that keeps every row)
unique_keeps_all(df) == {df, Reverse(df)}

\* The first row of every id, in order of first occurrence.
RECURSIVE KeepFirst(_)
KeepFirst(df) ==
    IF df = <<>> THEN <<>>
    ELSE LET init == KeepFirst(SubSeq(df, 1, Len(df) - 1))
             last == df[Len(df)]
         IN  IF last \in Range(init) THEN init ELSE Append(init, last)

\* full_df.unique(subset=[id], keep="first") is called without maintain_order:
\* polars keeps one row per id and leaves the order of the result unspecified.
\* The outcomes admitted here are the first-occurrence order and its reversal.
unique(df) == {KeepFirst(df), Reverse(KeepFirst(df))}

\* (a bug: rounding the chunk size down)
ceil_div_floor(n, d) == n \div d

\* math.ceil(total_rows / total_micro_chunks)
ceil_div(n, d) == (n + d - 1) \div d

\* ------------------------------------------------------------ programs not run
Partitions == 0..(NUM_PARTITIONS - 1)

EmptyFolder == [p \in Partitions |-> NoFile]

\* merge_partitions.py has not been started: no part files, an empty output folder.
MergeNotStarted ==
    /\ argv = <<>>
    /\ part_files = <<>>
    /\ rng = "reverse"
    /\ final_dataset = EmptyFolder
    /\ mpc = "idle"
    /\ partitions_to_process = <<>>
    /\ part_pos = 1
    /\ m_acc = 1
    /\ reading = FALSE
    /\ batch_no = 0
    /\ writer = FALSE
    /\ total_docs = 0
    /\ accounts_processed = 0
    /\ file_docs = 0
    /\ partition_counts = << >>
    /\ shuffle_ret = 0
    /\ summary = [total |-> 0]
    /\ restarts = 0

\* balance_partitions.py has not been started.
BalanceNotStarted ==
    /\ TARGET_DOCS_PER_FILE = 1
    /\ balanced = EmptyFolder
    /\ bpc = "idle"
    /\ partition_idx = 0
    /\ excess_dfs = <<>>
    /\ excess_combined = <<>>
    /\ total_excess = 0
    /\ excess_offset = 0
    /\ verified = [total |-> 0, min |-> 0, max |-> 0]

\* filter_incomplete_queries.py has not been started.
FilterNotStarted ==
    /\ queries_file = NoFile
    /\ neighbors_file = NoFile
    /\ min_neighbors = 1
    /\ output_dir = [queries |-> NoFile, neighbors |-> NoFile, id_mapping |-> NoFile]
    /\ fpc = "idle"
    /\ query_idx = 0
    /\ new_id = 0
    /\ filtered_queries = <<>>
    /\ filtered_neighbors = <<>>
    /\ id_mapping = <<>>
    /\ removed_count = 0
    /\ exit_status = <<>>

\* process_data.py has not been started.
InterleaverNotStarted ==
    /\ files_by_account = <<>>
    /\ num_shards = 1
    /\ rounds_per_shard = 1
    /\ ipc = "idle"
    /\ acc_pos = 1
    /\ data_map = << >>
    /\ chunk_sizes = << >>
    /\ file_idx = 0
    /\ train_part = [i \in 0..0 |-> NoFile]
    /\ created_files = <<>>
    /\ run = 1
    /\ prev_part = [i \in 0..0 |-> NoFile]

\* ------------------------------------------------------------ Interleaver
sorted_account_ids == 1..2

Doc(a, k) == <<a, k>>

\* The source files of account a: a first file of n rows, which may be
\* unreadable, and optionally a second file that holds row 1 again.
AccountFiles(a, n, second, ok) ==
    LET f1 == [readable |-> ok, rows |-> [k \in 1..n |-> Doc(a, k)]]
        f2 == [readable |-> TRUE, rows |-> <<Doc(a, 1)>>]
    IN  IF second THEN <<f1, f2>> ELSE <<f1>>

AccountInputs(a) ==
    {AccountFiles(a, n, second, ok) : n \in 0..MaxDocs, second \in BOOLEAN, ok \in BOOLEAN}

\* Two accounts of 25 and 15 documents, one readable file each.
ScenarioFiles == <<AccountFiles(1, 25, FALSE, TRUE), AccountFiles(2, 15, FALSE, TRUE)>>

\* Two accounts of 4 and 3 documents, one readable file each (run with 3 shards
\* and 1 round: chunk sizes 2 and 1).
UnevenFiles == <<AccountFiles(1, 4, FALSE, TRUE), AccountFiles(2, 3, FALSE, TRUE)>>

StartInterleaver(files, S, R) ==
    /\ files_by_account = files
    /\ num_shards = S
    /\ rounds_per_shard = R
    /\ ipc = "load"
    /\ acc_pos = 1
    /\ data_map = << >>
    /\ chunk_sizes = << >>
    /\ file_idx = 0
    /\ train_part = [i \in 0..(S - 1) |-> NoFile]
    /\ created_files = <<>>
    /\ run = 1
    /\ prev_part = [i \in 0..(S - 1) |-> NoFile]

\* The frames read from the files of one account (the except branch drops a file).
ReadFrames(files) ==
    LET RECURSIVE Go(_)
        Go(i) == IF i > Len(files) THEN <<>>
                 ELSE (IF files[i].readable THEN <<files[i].rows>> ELSE <<>>) \o Go(i + 1)
    IN  Go(1)

\* One pass of the loop over sorted_account_ids that fills data_map.
LoadAccount ==
    /\ ipc = "load"
    /\ acc_pos \in sorted_account_ids
    /\ LET dfs == ReadFrames(files_by_account[acc_pos])
       IN  IF dfs # <<>>
           THEN \E full_df \in unique(concat(dfs)) :
                    data_map' = [a \in DOMAIN data_map \cup {acc_pos} |->
                                    IF a = acc_pos THEN full_df ELSE data_map[a]]
           ELSE data_map' = data_map
    /\ acc_pos' = acc_pos + 1
    /\ ipc' = IF acc_pos + 1 \in sorted_account_ids THEN "load" ELSE "chunk_sizes"
    /\ UNCHANGED <<files_by_account, num_shards, rounds_per_shard, chunk_sizes,
                   file_idx, train_part, created_files, run, prev_part>>
    /\ UNCHANGED <<merge_vars, balance_vars, filter_vars>>

total_micro_chunks == num_shards * rounds_per_shard

ComputeChunkSizes ==
    /\ ipc = "chunk_sizes"
    /\ chunk_sizes' = [a \in DOMAIN data_map |-> ceil_div(Len(data_map[a]), total_micro_chunks)]
    /\ ipc' = "round_robin"
    /\ UNCHANGED <<files_by_account, num_shards, rounds_per_shard, acc_pos, data_map,
                   file_idx, train_part, created_files, run, prev_part>>
    /\ UNCHANGED <<merge_vars, balance_vars, filter_vars>>

\* (a bug: the start offset not multiplied by the chunk size)
Chunk_unscaled_start(a, global_chunk_idx) ==
    slice(data_map[a], global_chunk_idx, chunk_sizes[a])

\* The micro-chunk of account a at global_chunk_idx.
Chunk(a, global_chunk_idx) ==
    slice(data_map[a], global_chunk_idx * chunk_sizes[a], chunk_sizes[a])

\* (a bug: the account loop outside the round loop)
FileBuffer_account_major(f) ==
    LET n == Cardinality(sorted_account_ids)
        RECURSIVE Go(_)
        Go(step) ==
            IF step >= rounds_per_shard * n THEN <<>>
            ELSE LET a == (step \div rounds_per_shard) + 1
                     round_idx == step % rounds_per_shard
                     chunk == Chunk(a, (f * rounds_per_shard) + round_idx)
                 IN  (IF Len(chunk) > 0 THEN <<chunk>> ELSE <<>>) \o Go(step + 1)
    IN  Go(0)

\* file_buffer of shard f: for every round, for every account in sorted order,
\* the non-empty chunks.
FileBuffer(f) ==
    LET n == Cardinality(sorted_account_ids)
        RECURSIVE Go(_)
        \* step counts (round, account) pairs in loop order
        Go(step) ==
            IF step >= rounds_per_shard * n THEN <<>>
            ELSE LET round_idx == step \div n
                     a == (step % n) + 1
                     chunk == Chunk(a, (f * rounds_per_shard) + round_idx)
                 IN  (IF Len(chunk) > 0 THEN <<chunk>> ELSE <<>>) \o Go(step + 1)
    IN  Go(0)

\* One pass of the loop over file_idx: build file_buffer, then write the shard
\* unless the buffer is empty.
BuildFile ==
    /\ ipc = "round_robin"
    /\ file_idx < num_shards
    /\ sorted_account_ids \subseteq DOMAIN data_map
    /\ LET file_buffer == FileBuffer(file_idx)
       IN  IF file_buffer = <<>>
           THEN UNCHANGED <<train_part, created_files>>
           ELSE /\ train_part' = [train_part EXCEPT ![file_idx] = File(concat(file_buffer))]
                /\ created_files' = Append(created_files, file_idx)
    /\ file_idx' = file_idx + 1
    /\ ipc' = IF file_idx + 1 < num_shards THEN "round_robin" ELSE "done"
    /\ UNCHANGED <<files_by_account, num_shards, rounds_per_shard, acc_pos, data_map,
                   chunk_sizes, run, prev_part>>
    /\ UNCHANGED <<merge_vars, balance_vars, filter_vars>>

\* data_map[acc_id] raises KeyError for an account none of whose files loaded.
BuildFileKeyError ==
    /\ ipc = "round_robin"
    /\ file_idx < num_shards
    /\ ~(sorted_account_ids \subseteq DOMAIN data_map)
    /\ ipc' = "crashed"
    /\ UNCHANGED <<files_by_account, num_shards, rounds_per_shard, acc_pos, data_map,
                   chunk_sizes, file_idx, train_part, created_files, run, prev_part>>
    /\ UNCHANGED <<merge_vars, balance_vars, filter_vars>>

\* The script is run a second time on the same input into a fresh output folder.
Rerun ==
    /\ ipc = "done"
    /\ run = 1
    /\ run' = 2
    /\ prev_part' = train_part
    /\ ipc' = "load"
    /\ acc_pos' = 1
    /\ data_map' = << >>
    /\ chunk_sizes' = << >>
    /\ file_idx' = 0
    /\ train_part' = [i \in 0..(num_shards - 1) |-> NoFile]
    /\ created_files' = <<>>
    /\ UNCHANGED <<files_by_account, num_shards, rounds_per_shard>>
    /\ UNCHANGED <<merge_vars, balance_vars, filter_vars>>

InitInterleave ==
    /\ \/ \E S \in 1..MaxShards, R \in 1..MaxRounds,
             f1 \in AccountInputs(1), f2 \in AccountInputs(2) :
               StartInterleaver(<<f1, f2>>, S, R)
       \/ StartInterleaver(ScenarioFiles, 2, 2)
       \/ StartInterleaver(UnevenFiles, 3, 1)
    /\ MergeNotStarted
    /\ BalanceNotStarted
    /\ FilterNotStarted

NextInterleave ==
    \/ LoadAccount
    \/ ComputeChunkSizes
    \/ BuildFile
    \/ BuildFileKeyError
    \/ Rerun

SpecInterleave == InitInterleave /\ [][NextInterleave]_vars

\* ------------------------------------------------------------ Merger and Shuffler
account_dirs == 1..2

PartDoc(a, p, j) == <<a, p, j>>

\* The partition file of account a for partition p, of n rows.  good_batches is
\* the number of batches that can be read before a read raises: more than the
\* file holds for a sound file, 0 for a file that cannot be opened.
PartFile(a, p, n, variant) ==
    LET rows == [j \in 1..n |-> PartDoc(a, p, j)]
    IN  CASE variant = "absent"   -> [exists |-> FALSE, rows |-> <<>>, good_batches |-> 0]
          [] variant = "good"     -> [exists |-> TRUE, rows |-> rows, good_batches |-> n + 1]
          [] variant = "corrupt0" -> [exists |-> TRUE, rows |-> rows, good_batches |-> 0]
          [] variant = "corrupt1" -> [exists |-> TRUE, rows |-> rows, good_batches |-> 1]

Variants == {"good", "absent", "corrupt0", "corrupt1"}

\* The command lines tried: all partitions, or one partition index.
Arguments == {<<>>, <<0>>, <<9>>}

RngKinds == {"reverse", "rotate"}

Rotate(df) == IF df = <<>> THEN <<>> ELSE Tail(df) \o <<Head(df)>>

\* (a bug: sampling with replacement)
sample_with_replacement(df) == [i \in 1..Len(df) |-> df[1]]

\* df.sample(fraction=1.0, shuffle=True, seed=42): all rows, without replacement,
\* in the order the seeded generator gives; rng selects that order.
sample(df) == IF rng = "reverse" THEN Reverse(df) ELSE Rotate(df)

\* (a bug: a failed shuffle reported as one row shuffled)
shuffle_file_counts_failure(f) ==
    IF f.exists
    THEN [file |-> File(sample(f.rows)), ret |-> Len(f.rows)]
    ELSE [file |-> f, ret |-> 1]

\* shuffle_file: read, permute, write back; any exception is caught and 0 returned.
\* Reading a file that does not exist raises.
shuffle_file(f) ==
    IF f.exists
    THEN [file |-> File(sample(f.rows)), ret |-> Len(f.rows)]
    ELSE [file |-> f, ret |-> 0]

\* (a bug: the partition argument ignored)
PartitionsToProcess_all(args) == [i \in 1..NUM_PARTITIONS |-> i - 1]

\* partitions_to_process: [int(sys.argv[1])] or list(range(NUM_PARTITIONS)).
PartitionsToProcess(args) ==
    IF Len(args) > 0 THEN <<args[1]>> ELSE [i \in 1..NUM_PARTITIONS |-> i - 1]

\* The partitions whose merged file an earlier run may have left in the output
\* folder (os.makedirs(exist_ok=True) keeps what is there): none before a run
\* over all partitions, none or partition 1 before a run for one partition.
PriorPartitions(args) == IF Len(args) > 0 THEN {{}, {1}} ELSE {{}}

\* The output folder an earlier run for the partitions prior left: the shuffled
\* rows of the part files of each, and no file where there were no rows.
PriorOutput(prior) ==
    [p \in Partitions |->
        LET rows == part_files[1][p].rows \o part_files[2][p].rows
        IN  IF p \in prior /\ rows # <<>> THEN File(sample(rows)) ELSE NoFile]

\* main up to the loop over partitions_to_process, and the first call of
\* merge_partition up to its loop.
StartMerge(args, folder) ==
    /\ argv = args
    /\ partitions_to_process = PartitionsToProcess(args)
    /\ final_dataset = folder
    /\ mpc = "merge"
    /\ part_pos = 1
    /\ m_acc = 1
    /\ reading = FALSE
    /\ batch_no = 0
    /\ writer = FALSE
    /\ total_docs = 0
    /\ accounts_processed = 0
    /\ file_docs = 0
    /\ partition_counts = << >>
    /\ shuffle_ret = 0
    /\ summary = [total |-> 0]
    /\ restarts = 0

current_partition == partitions_to_process[part_pos]

part_file == part_files[m_acc][current_partition]

merge_frame == <<argv, part_files, rng, partitions_to_process, part_pos, shuffle_ret, summary,
                restarts>>

\* (a bug: merge_partition returns with the writer still open)
MergeClose_leaves_open ==
    /\ mpc = "merge" /\ m_acc \notin account_dirs
    /\ partition_counts' = [p \in DOMAIN partition_counts \cup {current_partition} |->
                              IF p = current_partition THEN total_docs ELSE partition_counts[p]]
    /\ mpc' = "shuffle"
    /\ UNCHANGED <<final_dataset, m_acc, reading, batch_no, writer, total_docs,
                   accounts_processed, file_docs>>
    /\ UNCHANGED <<merge_frame, interleaver_vars, balance_vars, filter_vars>>

\* (a bug: a missing part file ends the loop over the account dirs)
MergeMissing_break ==
    /\ mpc = "merge" /\ m_acc \in account_dirs /\ ~reading
    /\ ~part_file.exists
    /\ m_acc' = Cardinality(account_dirs) + 1
    /\ UNCHANGED <<final_dataset, mpc, reading, batch_no, writer, total_docs,
                   accounts_processed, file_docs, partition_counts>>
    /\ UNCHANGED <<merge_frame, interleaver_vars, balance_vars, filter_vars>>

\* if not part_file.exists(): warning, continue
MergeMissing ==
    /\ mpc = "merge" /\ m_acc \in account_dirs /\ ~reading
    /\ ~part_file.exists
    /\ m_acc' = m_acc + 1
    /\ UNCHANGED <<final_dataset, mpc, reading, batch_no, writer, total_docs,
                   accounts_processed, file_docs, partition_counts>>
    /\ UNCHANGED <<merge_frame, interleaver_vars, balance_vars, filter_vars>>

\* Entering the try block: file_docs = 0.
MergeOpen ==
    /\ mpc = "merge" /\ m_acc \in account_dirs /\ ~reading
    /\ part_file.exists
    /\ reading' = TRUE
    /\ batch_no' = 0
    /\ file_docs' = 0
    /\ UNCHANGED <<final_dataset, mpc, m_acc, writer, total_docs, accounts_processed,
                   partition_counts>>
    /\ UNCHANGED <<merge_frame, interleaver_vars, balance_vars, filter_vars>>

\* (a bug: the rest of the part file read and written in one piece)
MergeBatch_whole_file ==
    /\ mpc = "merge" /\ reading
    /\ batch_no < part_file.good_batches
    /\ batch_no * BATCH_SIZE < Len(part_file.rows)
    /\ LET batch == slice(part_file.rows, batch_no * BATCH_SIZE, Len(part_file.rows))
           sofar == IF writer THEN final_dataset[current_partition].rows ELSE <<>>
       IN  /\ final_dataset' = [final_dataset EXCEPT ![current_partition] = File(sofar \o batch)]
           /\ file_docs' = file_docs + Len(batch)
    /\ writer' = TRUE
    /\ batch_no' = Len(part_file.rows)
    /\ UNCHANGED <<mpc, m_acc, reading, total_docs, accounts_processed, partition_counts>>
    /\ UNCHANGED <<merge_frame, interleaver_vars, balance_vars, filter_vars>>

\* (a bug: the writer appends to the file it finds at the output path)
MergeBatch_appends ==
    /\ mpc = "merge" /\ reading
    /\ batch_no < part_file.good_batches
    /\ batch_no * BATCH_SIZE < Len(part_file.rows)
    /\ LET batch == slice(part_file.rows, batch_no * BATCH_SIZE, BATCH_SIZE)
           sofar == final_dataset[current_partition].rows
       IN  /\ final_dataset' = [final_dataset EXCEPT ![current_partition] = File(sofar \o batch)]
           /\ file_docs' = file_docs + Len(batch)
    /\ writer' = TRUE
    /\ batch_no' = batch_no + 1
    /\ UNCHANGED <<mpc, m_acc, reading, total_docs, accounts_processed, partition_counts>>
    /\ UNCHANGED <<merge_frame, interleaver_vars, balance_vars, filter_vars>>

\* One pass of the loop over pf.iter_batches: open the writer if there is none
\* (which creates the output file), write the batch, count its rows.
MergeBatch ==
    /\ mpc = "merge" /\ reading
    /\ batch_no < part_file.good_batches
    /\ batch_no * BATCH_SIZE < Len(part_file.rows)
    /\ LET batch == slice(part_file.rows, batch_no * BATCH_SIZE, BATCH_SIZE)
           sofar == IF writer THEN final_dataset[current_partition].rows ELSE <<>>
       IN  /\ final_dataset' = [final_dataset EXCEPT ![current_partition] = File(sofar \o batch)]
           /\ file_docs' = file_docs + Len(batch)
    /\ writer' = TRUE
    /\ batch_no' = batch_no + 1
    /\ UNCHANGED <<mpc, m_acc, reading, total_docs, accounts_processed, partition_counts>>
    /\ UNCHANGED <<merge_frame, interleaver_vars, balance_vars, filter_vars>>

\* The read raises: except Exception: log, continue.
MergeReadError ==
    /\ mpc = "merge" /\ reading
    /\ batch_no >= part_file.good_batches
    /\ reading' = FALSE
    /\ m_acc' = m_acc + 1
    /\ UNCHANGED <<final_dataset, mpc, batch_no, writer, total_docs, accounts_processed,
                   file_docs, partition_counts>>
    /\ UNCHANGED <<merge_frame, interleaver_vars, balance_vars, filter_vars>>

\* The batches are exhausted: total_docs += file_docs; accounts_processed += 1.
MergeFileDone ==
    /\ mpc = "merge" /\ reading
    /\ batch_no < part_file.good_batches
    /\ batch_no * BATCH_SIZE >= Len(part_file.rows)
    /\ total_docs' = total_docs + file_docs
    /\ accounts_processed' = accounts_processed + 1
    /\ reading' = FALSE
    /\ m_acc' = m_acc + 1
    /\ UNCHANGED <<final_dataset, mpc, batch_no, writer, file_docs, partition_counts>>
    /\ UNCHANGED <<merge_frame, interleaver_vars, balance_vars, filter_vars>>

\* After the loop over account_dirs: close the writer, return total_docs;
\* main records it in partition_counts.
MergeClose ==
    /\ mpc = "merge" /\ m_acc \notin account_dirs
    /\ writer' = FALSE
    /\ partition_counts' = [p \in DOMAIN partition_counts \cup {current_partition} |->
                              IF p = current_partition THEN total_docs ELSE partition_counts[p]]
    /\ mpc' = "shuffle"
    /\ UNCHANGED <<final_dataset, m_acc, reading, batch_no, total_docs, accounts_processed,
                   file_docs>>
    /\ UNCHANGED <<merge_frame, interleaver_vars, balance_vars, filter_vars>>

\* shuffle_file(output_path), then the next pass of main's loop (which calls
\* merge_partition anew) or the summary.
ShuffleFile ==
    /\ mpc = "shuffle"
    /\ LET res == shuffle_file(final_dataset[current_partition])
       IN  /\ final_dataset' = [final_dataset EXCEPT ![current_partition] = res.file]
           /\ shuffle_ret' = res.ret
    /\ IF part_pos < Len(partitions_to_process)
       THEN /\ part_pos' = part_pos + 1
            /\ mpc' = "merge"
       ELSE /\ part_pos' = part_pos
            /\ mpc' = "summary"
    /\ m_acc' = 1
    /\ total_docs' = 0
    /\ accounts_processed' = 0
    /\ UNCHANGED <<argv, part_files, rng, partitions_to_process, reading, batch_no, writer,
                   file_docs, partition_counts, summary, restarts>>
    /\ UNCHANGED <<interleaver_vars, balance_vars, filter_vars>>

\* The final summary: the total of partition_counts over partitions_to_process.
Summary ==
    /\ mpc = "summary"
    /\ summary' = [total |-> LET RECURSIVE Go(_)
                                 Go(i) == IF i > Len(partitions_to_process) THEN 0
                                          ELSE (IF partitions_to_process[i] \in DOMAIN partition_counts
                                                THEN partition_counts[partitions_to_process[i]]
                                                ELSE 0) + Go(i + 1)
                             IN  Go(1)]
    /\ mpc' = "done"
    /\ UNCHANGED <<argv, part_files, rng, final_dataset, partitions_to_process, part_pos,
                   m_acc, reading, batch_no, writer, total_docs, accounts_processed,
                   file_docs, partition_counts, shuffle_ret,
                   restarts>>
    /\ UNCHANGED <<interleaver_vars, balance_vars, filter_vars>>

InitMerge ==
    /\ \E n1, n2 \in 0..MaxPartDocs, v1, v2 \in Variants, args \in Arguments, kind \in RngKinds :
         /\ part_files = [a \in account_dirs |-> [p \in Partitions |->
                            PartFile(a, p, IF a = 1 THEN n1 ELSE n2,
                                     IF p = 0 THEN (IF a = 1 THEN v1 ELSE v2) ELSE "good")]]
         /\ rng = kind
         /\ \E prior \in PriorPartitions(args) : StartMerge(args, PriorOutput(prior))
    /\ InterleaverNotStarted
    /\ BalanceNotStarted
    /\ FilterNotStarted

NextMerge ==
    \/ MergeMissing
    \/ MergeOpen
    \/ MergeBatch
    \/ MergeReadError
    \/ MergeFileDone
    \/ MergeClose
    \/ ShuffleFile
    \/ Summary

SpecMerge == InitMerge /\ [][NextMerge]_vars

\* The script is a sequential program that runs on until main returns.
SpecMergeLive == SpecMerge /\ WF_vars(NextMerge)

\* What an interruption leaves at the output path: the file as it is (the
\* batches written so far, or the merged file when the shuffle had not begun to
\* write), or, when the shuffle was writing back, any leading part of the
\* shuffled rows.
InterruptedFiles ==
    LET f == final_dataset[current_partition]
    IN  {f} \cup (IF mpc = "shuffle" /\ f.exists
                  THEN {File(head(sample(f.rows), k)) : k \in 0..Len(f.rows)}
                  ELSE {})

\* A run for one partition is interrupted during the merge, between merge and
\* shuffle or during the shuffle, and started again from the beginning of main
\* on the same part files.
Interrupt ==
    /\ mpc \in {"merge", "shuffle"}
    /\ Len(argv) > 0
    /\ restarts < MaxRestarts
    /\ restarts' = restarts + 1
    /\ \E f \in InterruptedFiles :
         final_dataset' = [final_dataset EXCEPT ![current_partition] = f]
    /\ mpc' = "merge"
    /\ part_pos' = 1
    /\ m_acc' = 1
    /\ reading' = FALSE
    /\ batch_no' = 0
    /\ writer' = FALSE
    /\ total_docs' = 0
    /\ accounts_processed' = 0
    /\ file_docs' = 0
    /\ partition_counts' = << >>
    /\ shuffle_ret' = 0
    /\ UNCHANGED <<argv, part_files, rng, partitions_to_process, summary>>
    /\ UNCHANGED <<interleaver_vars, balance_vars, filter_vars>>

InitRestart == InitMerge /\ Len(argv) > 0

NextRestart ==
    \/ MergeMissing
    \/ MergeOpen
    \/ MergeBatch
    \/ MergeReadError
    \/ MergeFileDone
    \/ MergeClose
    \/ ShuffleFile
    \/ Summary
    \/ Interrupt

SpecRestart == InitRestart /\ [][NextRestart]_vars

\* ------------------------------------------------------------ Balancer
\* The target counts tried: 1..MaxTarget, and 10 with shards of 7 or 12 records
\* (the sizes of the insufficient-excess scenario).
ScenarioTargets == {10}

Targets == (1..MaxTarget) \cup ScenarioTargets

\* The record counts tried for the shard file of partition p under target T:
\* T .. T+2 for the partitions of phase 1, 0 .. T+1 for those of phase 2.
ShardSizes(T, p) ==
    IF T \in ScenarioTargets THEN {7, 12}
    ELSE IF p < NUM_SOURCE_PARTITIONS THEN T..(T + 2) ELSE 0..(T + 1)

ShardDoc(p, j) == <<p, j>>

\* main up to the first loop.
StartBalance(T) ==
    /\ TARGET_DOCS_PER_FILE = T
    /\ balanced = EmptyFolder
    /\ bpc = "collect"
    /\ partition_idx = 0
    /\ excess_dfs = <<>>
    /\ excess_combined = <<>>
    /\ total_excess = 0
    /\ excess_offset = 0
    /\ verified = [total |-> 0, min |-> 0, max |-> 0]

merge_rest == <<argv, part_files, rng, mpc, partitions_to_process, part_pos, m_acc,
                reading, batch_no, writer, total_docs, accounts_processed, file_docs,
                partition_counts, shuffle_ret, summary, restarts>>

\* The input folder is given the shard file the program is about to read.
ProvideShard ==
    /\ bpc \in {"collect", "distribute"}
    /\ ~final_dataset[partition_idx].exists
    /\ \E n \in ShardSizes(TARGET_DOCS_PER_FILE, partition_idx) :
         final_dataset' = [final_dataset EXCEPT ![partition_idx] =
                              File([j \in 1..n |-> ShardDoc(partition_idx, j)])]
    /\ UNCHANGED <<merge_rest, interleaver_vars, balance_vars, filter_vars>>

\* Phase 1, one pass of the loop over range(5).
Collect ==
    /\ bpc = "collect"
    /\ final_dataset[partition_idx].exists
    /\ LET df == final_dataset[partition_idx].rows
           total == Len(df)
       IN  IF total > TARGET_DOCS_PER_FILE
           THEN LET keep_df == head(df, TARGET_DOCS_PER_FILE)
                    excess_df == tail(df, total - TARGET_DOCS_PER_FILE)
                IN  /\ balanced' = [balanced EXCEPT ![partition_idx] = File(keep_df)]
                    /\ excess_dfs' = Append(excess_dfs, excess_df)
           ELSE /\ balanced' = [balanced EXCEPT ![partition_idx] = File(df)]
                /\ excess_dfs' = excess_dfs
    /\ partition_idx' = partition_idx + 1
    /\ bpc' = IF partition_idx + 1 < NUM_SOURCE_PARTITIONS THEN "collect" ELSE "concat"
    /\ UNCHANGED <<TARGET_DOCS_PER_FILE, excess_combined, total_excess, excess_offset, verified>>
    /\ UNCHANGED <<merge_vars, interleaver_vars, filter_vars>>

\* pl.read_parquet of a file that does not exist raises; nothing catches it.
ReadMissing ==
    /\ bpc \in {"collect", "distribute"}
    /\ ~final_dataset[partition_idx].exists
    /\ bpc' = "crashed"
    /\ UNCHANGED <<TARGET_DOCS_PER_FILE, balanced, partition_idx, excess_dfs,
                   excess_combined, total_excess, excess_offset, verified>>
    /\ UNCHANGED <<merge_vars, interleaver_vars, filter_vars>>

\* excess_combined = pl.concat(excess_dfs); excess_offset = 0.
Combine ==
    /\ bpc = "concat"
    /\ excess_dfs # <<>>
    /\ excess_combined' = concat(excess_dfs)
    /\ total_excess' = Len(concat(excess_dfs))
    /\ excess_offset' = 0
    /\ partition_idx' = NUM_SOURCE_PARTITIONS
    /\ bpc' = "distribute"
    /\ UNCHANGED <<TARGET_DOCS_PER_FILE, balanced, excess_dfs, verified>>
    /\ UNCHANGED <<merge_vars, interleaver_vars, filter_vars>>

\* pl.concat of an empty list raises ValueError; nothing catches it.
CombineEmpty ==
    /\ bpc = "concat"
    /\ excess_dfs = <<>>
    /\ bpc' = "crashed"
    /\ UNCHANGED <<TARGET_DOCS_PER_FILE, balanced, partition_idx, excess_dfs,
                   excess_combined, total_excess, excess_offset, verified>>
    /\ UNCHANGED <<merge_vars, interleaver_vars, filter_vars>>

\* (a bug: the last partition leaves the last record of the pool behind)
docs_needed_all_but_one(idx, current_docs) ==
    IF idx < LAST_PARTITION
    THEN TARGET_DOCS_PER_FILE - current_docs
    ELSE total_excess - excess_offset - 1

\* (a bug: the last partition filled up to the target like the others)
docs_needed_capped(idx, current_docs) == TARGET_DOCS_PER_FILE - current_docs

docs_needed(idx, current_docs) ==
    IF idx < LAST_PARTITION
    THEN TARGET_DOCS_PER_FILE - current_docs
    ELSE total_excess - excess_offset

\* (a bug: the cursor not advanced after a slice was handed out)
Distribute_cursor_stays ==
    /\ bpc = "distribute"
    /\ final_dataset[partition_idx].exists
    /\ LET df == final_dataset[partition_idx].rows
           needed == docs_needed(partition_idx, Len(df))
       IN  IF needed > 0 /\ excess_offset < total_excess
           THEN LET docs_to_add == slice(excess_combined, excess_offset, needed)
                IN  /\ excess_offset' = excess_offset
                    /\ balanced' = [balanced EXCEPT ![partition_idx] = File(df \o docs_to_add)]
           ELSE /\ excess_offset' = excess_offset
                /\ balanced' = [balanced EXCEPT ![partition_idx] = File(df)]
    /\ partition_idx' = partition_idx + 1
    /\ bpc' = IF partition_idx + 1 < NUM_PARTITIONS THEN "distribute" ELSE "verify"
    /\ UNCHANGED <<TARGET_DOCS_PER_FILE, excess_dfs, excess_combined, total_excess, verified>>
    /\ UNCHANGED <<merge_vars, interleaver_vars, filter_vars>>

\* Phase 2, one pass of the loop over range(5, NUM_PARTITIONS).
Distribute ==
    /\ bpc = "distribute"
    /\ final_dataset[partition_idx].exists
    /\ LET df == final_dataset[partition_idx].rows
           needed == docs_needed(partition_idx, Len(df))
       IN  IF needed > 0 /\ excess_offset < total_excess
           THEN LET docs_to_add == slice(excess_combined, excess_offset, needed)
                IN  /\ excess_offset' = excess_offset + Len(docs_to_add)
                    /\ balanced' = [balanced EXCEPT ![partition_idx] = File(df \o docs_to_add)]
           ELSE /\ excess_offset' = excess_offset
                /\ balanced' = [balanced EXCEPT ![partition_idx] = File(df)]
    /\ partition_idx' = partition_idx + 1
    /\ bpc' = IF partition_idx + 1 < NUM_PARTITIONS THEN "distribute" ELSE "verify"
    /\ UNCHANGED <<TARGET_DOCS_PER_FILE, excess_dfs, excess_combined, total_excess, verified>>
    /\ UNCHANGED <<merge_vars, interleaver_vars, filter_vars>>

\* The verification pass: the row count of every output file, their total,
\* minimum and maximum.
Verify ==
    /\ bpc = "verify"
    /\ LET count == [p \in Partitions |-> Len(balanced[p].rows)]
           RECURSIVE Total(_)
           Total(p) == IF p >= NUM_PARTITIONS THEN 0 ELSE count[p] + Total(p + 1)
       IN  verified' = [total |-> Total(0),
                        min |-> CHOOSE m \in Range(count) : \A c \in Range(count) : m <= c,
                        max |-> CHOOSE m \in Range(count) : \A c \in Range(count) : m >= c]
    /\ bpc' = "done"
    /\ UNCHANGED <<TARGET_DOCS_PER_FILE, balanced, partition_idx, excess_dfs,
                   excess_combined, total_excess, excess_offset>>
    /\ UNCHANGED <<merge_vars, interleaver_vars, filter_vars>>

InitBalance ==
    /\ InterleaverNotStarted
    /\ MergeNotStarted
    /\ FilterNotStarted
    /\ \E T \in Targets : StartBalance(T)

NextBalance ==
    \/ ProvideShard
    \/ Collect
    \/ ReadMissing
    \/ Combine
    \/ CombineEmpty
    \/ Distribute
    \/ Verify

SpecBalance == InitBalance /\ [][NextBalance]_vars

\* ------------------------------------------------------------ the stages in sequence
\* Interleaver, then Shuffler, then Balancer, over one set of NUM_PARTITIONS
\* shard files.  The document counts tried leave the late shards empty (9),
\* fill every shard (10), or overfill the early ones (11).
PipelineDocCounts == {0} \cup ((NUM_PARTITIONS - 1)..(NUM_PARTITIONS + 1))

PipelineInputs(a) ==
    {AccountFiles(a, n, second, ok) : n \in PipelineDocCounts, second \in BOOLEAN, ok \in BOOLEAN}

\* The shard files the Interleaver wrote become the shard files of the folder
\* the Shuffler and the Balancer work on.
StageShards ==
    /\ ipc = "done"
    /\ mpc = "idle"
    /\ final_dataset' = [p \in Partitions |-> IF p \in DOMAIN train_part THEN train_part[p] ELSE NoFile]
    /\ partitions_to_process' = [i \in 1..NUM_PARTITIONS |-> i - 1]
    /\ part_pos' = 1
    /\ mpc' = "shuffle_all"
    /\ UNCHANGED <<argv, part_files, rng, m_acc, reading, batch_no, writer, total_docs,
                   accounts_processed, file_docs, partition_counts, shuffle_ret, summary,
                   restarts>>
    /\ UNCHANGED <<interleaver_vars, balance_vars, filter_vars>>

\* shuffle_file on the next staged shard.
ShuffleStaged ==
    /\ mpc = "shuffle_all"
    /\ LET res == shuffle_file(final_dataset[current_partition])
       IN  /\ final_dataset' = [final_dataset EXCEPT ![current_partition] = res.file]
           /\ shuffle_ret' = res.ret
    /\ IF part_pos < Len(partitions_to_process)
       THEN /\ part_pos' = part_pos + 1
            /\ mpc' = "shuffle_all"
       ELSE /\ part_pos' = part_pos
            /\ mpc' = "shuffled"
    /\ UNCHANGED <<argv, part_files, rng, partitions_to_process, m_acc, reading, batch_no,
                   writer, total_docs, accounts_processed, file_docs, partition_counts, summary,
                   restarts>>
    /\ UNCHANGED <<interleaver_vars, balance_vars, filter_vars>>

\* balance_partitions.py is started on the shuffled shards.
BeginBalance ==
    /\ mpc = "shuffled"
    /\ bpc = "idle"
    /\ bpc' = "collect"
    /\ UNCHANGED <<TARGET_DOCS_PER_FILE, balanced, partition_idx, excess_dfs,
                   excess_combined, total_excess, excess_offset, verified>>
    /\ UNCHANGED <<merge_vars, interleaver_vars, filter_vars>>

InitPipeline ==
    /\ \E f1 \in PipelineInputs(1), f2 \in PipelineInputs(2) :
         StartInterleaver(<<f1, f2>>, NUM_PARTITIONS, 1)
    /\ \E kind \in RngKinds :
         /\ argv = <<>>
         /\ part_files = <<>>
         /\ rng = kind
         /\ final_dataset = EmptyFolder
         /\ mpc = "idle"
         /\ partitions_to_process = <<>>
         /\ part_pos = 1
         /\ m_acc = 1
         /\ reading = FALSE
         /\ batch_no = 0
         /\ writer = FALSE
         /\ total_docs = 0
         /\ accounts_processed = 0
         /\ file_docs = 0
         /\ partition_counts = << >>
         /\ shuffle_ret = 0
         /\ summary = [total |-> 0]
         /\ restarts = 0
    /\ \E target \in 1..MaxTarget :
         /\ TARGET_DOCS_PER_FILE = target
         /\ balanced = EmptyFolder
         /\ bpc = "idle"
         /\ partition_idx = 0
         /\ excess_dfs = <<>>
         /\ excess_combined = <<>>
         /\ total_excess = 0
         /\ excess_offset = 0
         /\ verified = [total |-> 0, min |-> 0, max |-> 0]
    /\ FilterNotStarted

NextPipeline ==
    \/ LoadAccount
    \/ ComputeChunkSizes
    \/ BuildFile
    \/ BuildFileKeyError
    \/ StageShards
    \/ ShuffleStaged
    \/ BeginBalance
    \/ Collect
    \/ ReadMissing
    \/ Combine
    \/ CombineEmpty
    \/ Distribute
    \/ Verify

SpecPipeline == InitPipeline /\ [][NextPipeline]_vars

\* ------------------------------------------------------------ the filter of queries
\* Row k of the queries file: an id and the query itself (here the account it
\* filters on, which is all that extract_account_id reads of it).
QueryRow(k) == [id |-> 2 * k, query |-> k]

\* Row k of the neighbors file, with c neighbors.
NeighborsRow(k, c) == [id |-> 2 * k, neighbors |-> [j \in 1..c |-> j]]

QueriesFiles ==
    {NoFile} \cup {File([k \in 1..n |-> QueryRow(k)]) : n \in 0..MaxQueries}

NeighborsFiles ==
    {NoFile} \cup
    UNION {{File([k \in 1..n |-> NeighborsRow(k, c[k])]) : c \in [1..n -> 0..MaxNeighbors]} :
             n \in 0..MaxQueries}

NoOutput == [queries |-> NoFile, neighbors |-> NoFile, id_mapping |-> NoFile]

\* main after parse_args.
StartFilter(queries, neighbors, threshold) ==
    /\ queries_file = queries
    /\ neighbors_file = neighbors
    /\ min_neighbors = threshold
    /\ output_dir = NoOutput
    /\ fpc = "validate"
    /\ query_idx = 0
    /\ new_id = 0
    /\ filtered_queries = <<>>
    /\ filtered_neighbors = <<>>
    /\ id_mapping = <<>>
    /\ removed_count = 0
    /\ exit_status = <<>>

total_queries == Len(queries_file.rows)

total_neighbors == Len(neighbors_file.rows)

\* (a bug: only a queries file longer than the neighbors file is refused)
row_count_mismatch_only_more(n_queries, n_neighbors) == n_queries > n_neighbors

\* total_queries != total_neighbors
row_count_mismatch(n_queries, n_neighbors) == n_queries # n_neighbors

\* extract_account_id(query)
extract_account_id(query) == query

\* Validate inputs: an input path that does not exist ends main with return 1.
ValidateInputs ==
    /\ fpc = "validate"
    /\ IF ~queries_file.exists \/ ~neighbors_file.exists
       THEN fpc' = "exited" /\ exit_status' = <<1>>
       ELSE fpc' = "read" /\ exit_status' = exit_status
    /\ UNCHANGED <<queries_file, neighbors_file, min_neighbors, output_dir, query_idx,
                   new_id, filtered_queries, filtered_neighbors, id_mapping, removed_count>>
    /\ UNCHANGED <<interleaver_vars, merge_vars, balance_vars>>

\* Read both tables and compare their row counts: a mismatch ends main with
\* return 1.
ReadInputs ==
    /\ fpc = "read"
    /\ IF row_count_mismatch(total_queries, total_neighbors)
       THEN fpc' = "exited" /\ exit_status' = <<1>>
       ELSE fpc' = "filter" /\ exit_status' = exit_status
    /\ UNCHANGED <<queries_file, neighbors_file, min_neighbors, output_dir, query_idx,
                   new_id, filtered_queries, filtered_neighbors, id_mapping, removed_count>>
    /\ UNCHANGED <<interleaver_vars, merge_vars, balance_vars>>

\* One pass of the loop over range(total_queries).
FilterRow ==
    /\ fpc = "filter"
    /\ query_idx < total_queries
    /\ LET old_id == queries_file.rows[query_idx + 1].id
           query == queries_file.rows[query_idx + 1].query
           neighbors == neighbors_file.rows[query_idx + 1].neighbors
           neighbor_count == Len(neighbors)
       IN  IF neighbor_count >= min_neighbors
           THEN /\ new_id' = new_id + 1
                /\ filtered_queries' = Append(filtered_queries,
                                              [id |-> new_id + 1, query |-> query])
                /\ filtered_neighbors' = Append(filtered_neighbors,
                                                [id |-> new_id + 1, neighbors |-> neighbors])
                /\ id_mapping' = Append(id_mapping,
                                        [new_id |-> new_id + 1, old_id |-> old_id,
                                         account_id |-> extract_account_id(query),
                                         neighbor_count |-> neighbor_count])
                /\ removed_count' = removed_count
           ELSE /\ removed_count' = removed_count + 1
                /\ UNCHANGED <<new_id, filtered_queries, filtered_neighbors, id_mapping>>
    /\ query_idx' = query_idx + 1
    /\ UNCHANGED <<queries_file, neighbors_file, min_neighbors, output_dir, fpc, exit_status>>
    /\ UNCHANGED <<interleaver_vars, merge_vars, balance_vars>>

\* After the loop: the kept and removed percentages are printed
\* (kept_count/total_queries raises ZeroDivisionError for empty inputs, which
\* ends the process with status 1), then the output directory is created.
ReportKept ==
    /\ fpc = "filter"
    /\ query_idx >= total_queries
    /\ IF total_queries = 0
       THEN fpc' = "crashed" /\ exit_status' = <<1>>
       ELSE fpc' = "write_queries" /\ exit_status' = exit_status
    /\ UNCHANGED <<queries_file, neighbors_file, min_neighbors, output_dir, query_idx,
                   new_id, filtered_queries, filtered_neighbors, id_mapping, removed_count>>
    /\ UNCHANGED <<interleaver_vars, merge_vars, balance_vars>>

WriteQueries ==
    /\ fpc = "write_queries"
    /\ output_dir' = [output_dir EXCEPT !.queries = File(filtered_queries)]
    /\ fpc' = "write_neighbors"
    /\ UNCHANGED <<queries_file, neighbors_file, min_neighbors, query_idx, new_id,
                   filtered_queries, filtered_neighbors, id_mapping, removed_count,
                   exit_status>>
    /\ UNCHANGED <<interleaver_vars, merge_vars, balance_vars>>

WriteNeighbors ==
    /\ fpc = "write_neighbors"
    /\ output_dir' = [output_dir EXCEPT !.neighbors = File(filtered_neighbors)]
    /\ fpc' = "write_mapping"
    /\ UNCHANGED <<queries_file, neighbors_file, min_neighbors, query_idx, new_id,
                   filtered_queries, filtered_neighbors, id_mapping, removed_count,
                   exit_status>>
    /\ UNCHANGED <<interleaver_vars, merge_vars, balance_vars>>

\* The id mapping is written, the summary printed, and main returns 0.
WriteMapping ==
    /\ fpc = "write_mapping"
    /\ output_dir' = [output_dir EXCEPT !.id_mapping = File(id_mapping)]
    /\ fpc' = "exited"
    /\ exit_status' = <<0>>
    /\ UNCHANGED <<queries_file, neighbors_file, min_neighbors, query_idx, new_id,
                   filtered_queries, filtered_neighbors, id_mapping, removed_count>>
    /\ UNCHANGED <<interleaver_vars, merge_vars, balance_vars>>

InitFilter ==
    /\ \E queries \in QueriesFiles, neighbors \in NeighborsFiles,
          threshold \in 1..MaxNeighbors :
            StartFilter(queries, neighbors, threshold)
    /\ InterleaverNotStarted
    /\ MergeNotStarted
    /\ BalanceNotStarted

NextFilter ==
    \/ ValidateInputs
    \/ ReadInputs
    \/ FilterRow
    \/ ReportKept
    \/ WriteQueries
    \/ WriteNeighbors
    \/ WriteMapping

SpecFilter == InitFilter /\ [][NextFilter]_vars

\* ------------------------------------------------------------ measures
RECURSIVE SumOver(_, _)
SumOver(f, S) ==
    IF S = {} THEN 0
    ELSE LET x == CHOOSE y \in S : TRUE IN f[x] + SumOver(f, S \ {x})

\* How many rows of frame df are the document d.
Occurrences(df, d) == Cardinality({i \in DOMAIN df : df[i] = d})

\* The rows of the files of folder dir (indexed 0..n-1), in index order.
AllRows(dir) ==
    LET RECURSIVE Go(_)
        Go(i) == IF i \notin DOMAIN dir THEN <<>> ELSE dir[i].rows \o Go(i + 1)
    IN  Go(0)

\* How many rows of the files of folder dir are the document d.
OccurrencesIn(dir, d) == Occurrences(AllRows(dir), d)

RowCount(dir) == Len(AllRows(dir))

\* No document is in frame df twice.
NoRepeats(df) == Cardinality(Range(df)) = Len(df)

\* The two frames hold the same documents, each as often in one as in the other.
\* Frames without repeated documents are compared by their sets of documents.
SameMultiset(df1, df2) ==
    /\ Len(df1) = Len(df2)
    /\ IF NoRepeats(df1) /\ NoRepeats(df2)
       THEN Range(df1) = Range(df2)
       ELSE \A d \in Range(df1) \cup Range(df2) : Occurrences(df1, d) = Occurrences(df2, d)

\* ------------------------------------------------------------ claims: Interleaver
\* The 0-based positions of an account of n rows that the micro-chunk at
\* global_chunk_idx g takes, for chunk size c.
ChunkPositions(n, c, g) == {p \in 0..(n - 1) : g * c <= p /\ p < (g * c) + c}

AllLoaded == sorted_account_ids \subseteq DOMAIN data_map

\* C3: with chunk_size = ceil(n / (S*R)), the slices of an account for
\* global_chunk_idx 0..S*R-1 are pairwise disjoint, each slice holds exactly the
\* rows at its positions, and together they cover positions 0..n-1; when the run
\* is done every loaded document is in exactly one shard exactly once and the
\* shard sizes sum to the account sizes.
C3_PartitionLaw ==
    (ipc \in {"round_robin", "done"} /\ AllLoaded) =>
        /\ \A a \in sorted_account_ids :
            LET n == Len(data_map[a])
                c == chunk_sizes[a]
                G == 0..(total_micro_chunks - 1)
            IN  /\ c = ceil_div(n, total_micro_chunks)
                /\ \A g \in G :
                     Chunk(a, g) = [k \in 1..Cardinality(ChunkPositions(n, c, g)) |->
                                        data_map[a][(g * c) + k]]
                /\ \A g, h \in G : g # h => ChunkPositions(n, c, g) \cap ChunkPositions(n, c, h) = {}
                /\ UNION {ChunkPositions(n, c, g) : g \in G} = 0..(n - 1)
        /\ ipc = "done" =>
            /\ LET output == AllRows(train_part)
               IN  \A a \in sorted_account_ids : \A d \in Range(data_map[a]) :
                       Occurrences(output, d) = 1
            /\ RowCount(train_part) =
                   SumOver([a \in sorted_account_ids |-> Len(data_map[a])], sorted_account_ids)

\* An account larger than the micro-chunk grid whose last chunk is cut short.
C3_Witness ==
    /\ ipc = "done"
    /\ total_micro_chunks = 4
    /\ Len(data_map[1]) = 5
    /\ Len(data_map[2]) = 3

\* C4: two runs of the Interleaver on identical input with identical S and R
\* leave the same ordered document sequence in every shard.
C4_Determinism ==
    (run = 2 /\ ipc = "done") => train_part = prev_part

IsScenario ==
    /\ files_by_account = ScenarioFiles
    /\ num_shards = 2
    /\ rounds_per_shard = 2

\* Python's A[i:j] on a frame.
PySlice(df, i, j) == SubSeq(df, i + 1, Min(j, Len(df)))

\* C8: accounts A (25 docs) and B (15 docs), S=2, R=2: total_micro_chunks=4,
\* chunk_size(A)=7, chunk_size(B)=4, shard 0 = A[0:7]+B[0:4]+A[7:14]+B[4:8] and
\* shard 1 = A[14:21]+B[8:12]+A[21:25]+B[12:15], in that order.
C8_ScenarioContents ==
    (IsScenario /\ ipc = "done") =>
        LET A == data_map[1]
            B == data_map[2]
        IN  /\ Len(A) = 25 /\ Len(B) = 15
            /\ total_micro_chunks = 4
            /\ chunk_sizes[1] = 7 /\ chunk_sizes[2] = 4
            /\ train_part[0] = File(PySlice(A, 0, 7) \o PySlice(B, 0, 4)
                                    \o PySlice(A, 7, 14) \o PySlice(B, 4, 8))
            /\ train_part[1] = File(PySlice(A, 14, 21) \o PySlice(B, 8, 12)
                                    \o PySlice(A, 21, 25) \o PySlice(B, 12, 15))

C8_Witness == IsScenario /\ ipc = "done" /\ created_files = <<0, 1>>

\* C9 as stated: in the scenario the Interleaver writes 22 documents to shard 0
\* and 14 documents to shard 1.
C9_AsStated ==
    (IsScenario /\ ipc = "done") =>
        (Len(train_part[0].rows) = 22 /\ Len(train_part[1].rows) = 14)

\* C9 amended: in the scenario the Interleaver writes 22 documents to shard 0
\* and 18 documents to shard 1 (7+4+4+3), 40 in all.
C9_ScenarioSizes ==
    (IsScenario /\ ipc = "done") =>
        (Len(train_part[0].rows) = 22 /\ Len(train_part[1].rows) = 18)

C9_Witness == IsScenario /\ ipc = "done" /\ train_part[1].exists /\ run = 1

\* C12: each shard-producing stage leaves one shard file for every index it was
\* asked for: the Interleaver, once done, a file for every index 0..S-1, and the
\* Merger, once a partition is merged, the merged file of that partition, also
\* when the shard received no records.
C12_OutputContract ==
    /\ ipc = "done" => \A i \in 0..(num_shards - 1) : train_part[i].exists
    /\ (mpc \in {"shuffle", "summary", "done"}) =>
          \A i \in 1..part_pos : final_dataset[partitions_to_process[i]].exists

SomeFileUnreadable ==
    \E a \in sorted_account_ids : \E i \in DOMAIN files_by_account[a] :
        ~files_by_account[a][i].readable

\* C13: when source files of an account cannot be read, every file of the
\* account included, the Interleaver does not abort: it never stops on an
\* error, and once done it has written the rows of the accounts that loaded.
C13_InputFailureTolerated ==
    SomeFileUnreadable =>
        /\ ipc # "crashed"
        /\ ipc = "done" =>
              \A a \in DOMAIN data_map : \A d \in Range(data_map[a]) :
                  OccurrencesIn(train_part, d) = 1

\* Shard i holds a document of account a.
HasDocOf(i, a) == \E k \in DOMAIN train_part[i].rows : train_part[i].rows[k][1] = a

\* C25: after the Interleaver has finished, every shard 0..S-1 holds documents
\* of every account.
C25_MixtureGuarantee ==
    ipc = "done" =>
        \A i \in 0..(num_shards - 1) : \A a \in sorted_account_ids : HasDocOf(i, a)

\* The accounts whose documents the Interleaver holds in memory.
ResidentAccounts == {a \in DOMAIN data_map : data_map[a] # <<>>}

\* C26: at every point of the Interleaver's run the documents held in memory
\* belong to at most one account.
C26_InterleaverMemoryBound == Cardinality(ResidentAccounts) <= 1

ReadsThrough(f) == f.exists /\ ceil_div(Len(f.rows), BATCH_SIZE) < f.good_batches

Unreadable(f) == f.exists /\ ~ReadsThrough(f)

\* The rows of the part files of partition p that can be read, in account order.
RowsRead(p) ==
    LET RECURSIVE Go(_)
        Go(a) == IF a \notin account_dirs THEN <<>>
                 ELSE (IF ReadsThrough(part_files[a][p]) THEN part_files[a][p].rows ELSE <<>>)
                      \o Go(a + 1)
    IN  Go(1)

SomeAbsent(p) == \E a \in account_dirs : ~part_files[a][p].exists

\* The merge of the current partition has returned and the shuffle has not begun.
Merged == mpc = "shuffle"

\* C11: an absent part file does not stop merge_partition: the step that meets
\* it goes on to the next account and changes neither the merged file nor the
\* count; when an account's part file of a partition was absent, the total
\* returned for the partition is the sum of the row counts of the files that
\* were found and read, and every row of those files is in the merged file once
\* (the merged file is exactly those rows, in account order, when no file found
\* was unreadable).
C11_MissingPartFile ==
    /\ [](\A p \in DOMAIN partition_counts :
             SomeAbsent(p) => partition_counts[p] = Len(RowsRead(p)))
    /\ []((Merged /\ SomeAbsent(current_partition)) =>
             LET out == final_dataset[current_partition].rows
                 p == current_partition
             IN  /\ \A d \in Range(RowsRead(p)) : Occurrences(out, d) = 1
                 /\ (\A a \in account_dirs : ~Unreadable(part_files[a][p])) => out = RowsRead(p))
    /\ [][(mpc = "merge" /\ m_acc \in account_dirs /\ ~reading /\ ~part_file.exists) =>
             /\ mpc' = "merge"
             /\ m_acc' = m_acc + 1
             /\ total_docs' = total_docs
             /\ final_dataset' = final_dataset]_vars

\* The first account's file of partition 0 was absent, the second account's
\* file held rows, and the merge returned their count.
C11_Witness ==
    /\ Merged
    /\ current_partition = 0
    /\ ~part_files[1][0].exists
    /\ ReadsThrough(part_files[2][0])
    /\ partition_counts[0] = Len(part_files[2][0].rows)
    /\ partition_counts[0] >= 2
    /\ final_dataset[0].rows = part_files[2][0].rows

\* C16: when reading an account's part file raises, before the first batch or
\* after some batches were written, the merge goes on with the next account and
\* the account contributes nothing: the total returned counts only the files
\* read through, and no row of the failed file is in the merged file.
C16_ReadFailureContributesZero ==
    /\ [](Merged =>
            LET p == current_partition
            IN  /\ partition_counts[p] = Len(RowsRead(p))
                /\ \A a \in account_dirs :
                      Unreadable(part_files[a][p]) =>
                          \A d \in Range(part_files[a][p].rows) :
                              Occurrences(final_dataset[p].rows, d) = 0)
    /\ [][(mpc = "merge" /\ reading /\ batch_no >= part_file.good_batches) =>
             (mpc' = "merge" /\ m_acc' = m_acc + 1)]_vars

\* The shuffle about to run cannot read its file.
ShuffleFails == mpc = "shuffle" /\ ~final_dataset[current_partition].exists

\* C17: a shuffle_file call that fails reports 0 rows and leaves the files as
\* they were, main goes on to the next partition (or to the summary after the
\* last one), and the run goes on to the end of its final summary.
C17_ShuffleFailureNotFatal ==
    /\ [][ShuffleFails =>
             /\ shuffle_ret' = 0
             /\ final_dataset' = final_dataset
             /\ IF part_pos < Len(partitions_to_process)
                THEN mpc' = "merge" /\ part_pos' = part_pos + 1
                ELSE mpc' = "summary"]_vars
    /\ ShuffleFails ~> (mpc = "done")

\* The shuffle of partition 0 failed, the later partitions were merged and
\* shuffled, and the summary was reached.
C17_Witness ==
    /\ mpc = "done"
    /\ argv = <<>>
    /\ ~final_dataset[0].exists
    /\ \A p \in Partitions \ {0} : final_dataset[p].exists /\ Len(final_dataset[p].rows) >= 2
    /\ summary.total > 0

\* C18: given a partition argument the program merges and shuffles that
\* partition alone and no step changes the file of another partition; given no
\* argument it processes the partitions 0..N-1, each once, in increasing order.
\* In both modes a step changes at most the file of the partition in hand.
C18_SingleShardMode ==
    /\ [](/\ (Len(argv) > 0 => partitions_to_process = <<argv[1]>>)
          /\ (Len(argv) = 0 => partitions_to_process = [i \in 1..NUM_PARTITIONS |-> i - 1])
          /\ (mpc = "done" => DOMAIN partition_counts = Range(partitions_to_process)))
    /\ [][/\ \A p \in Partitions :
              (final_dataset'[p] # final_dataset[p]) =>
                  /\ p = current_partition
                  /\ (Len(argv) > 0 => p = argv[1])
          /\ (partition_counts' # partition_counts) =>
              /\ DOMAIN partition_counts' = DOMAIN partition_counts \cup {current_partition}
              /\ \A q \in DOMAIN partition_counts : q < current_partition
          /\ (mpc = "shuffle" /\ mpc' = "merge") =>
              current_partition' = current_partition + 1]_vars

\* A run for partition 9 alone ended: its merged file is there and the file
\* an earlier run left for partition 1 is as it was.
C18_Witness ==
    /\ mpc = "done"
    /\ argv = <<9>>
    /\ final_dataset[1].exists
    /\ final_dataset[1] = PriorOutput({1})[1]
    /\ final_dataset[9].exists
    /\ Len(final_dataset[9].rows) >= 3
    /\ DOMAIN partition_counts = {9}

\* C23: in a run over all partitions no shuffle starts before every partition
\* has been merged: the merges all come first, then the shuffles.
C23_StrictStageOrdering ==
    (Len(argv) = 0 /\ mpc = "shuffle") => DOMAIN partition_counts = Partitions

\* C24: the Shuffler reads a partition's merged file only after merge_partition
\* has gone through every account dir and closed its writer, the writer is open
\* only while the Merger is at work, and a step that changes a file is either
\* a batch written by the Merger or the write-back of the Shuffler, on the
\* partition in hand, never both.
C24_WriteBeforeRead ==
    /\ [](/\ writer => mpc = "merge"
          /\ mpc = "shuffle" =>
                /\ ~writer /\ ~reading
                /\ m_acc \notin account_dirs
                /\ current_partition \in DOMAIN partition_counts)
    /\ [][\A p \in Partitions :
             (final_dataset'[p] # final_dataset[p]) =>
                 /\ p = current_partition
                 /\ \/ mpc = "merge" /\ reading /\ writer' /\ mpc' = "merge"
                    \/ mpc = "shuffle" /\ ~writer /\ mpc' \in {"merge", "summary"}]_vars

\* A partition whose merged file took batches from both accounts is about to
\* be shuffled.
C24_Witness ==
    /\ mpc = "shuffle"
    /\ current_partition = 1
    /\ final_dataset[1].exists
    /\ Len(final_dataset[1].rows) >= 2 * BATCH_SIZE
    /\ partition_counts[1] = Len(final_dataset[1].rows)

\* C27: while merge_partition runs, a step that reads from a part file reads
\* one batch of at most BATCH_SIZE records, the records that follow the batches
\* read before, and appends that batch to the destination in the same step,
\* before the next batch is read; what the destination already held is left in
\* place and is not read back.
C27_MergerMemoryBound ==
    [][(mpc = "merge" /\ reading /\ batch_no' # batch_no) =>
          LET p == current_partition
              batch == SubSeq(part_file.rows, (batch_no * BATCH_SIZE) + 1,
                              Min((batch_no + 1) * BATCH_SIZE, Len(part_file.rows)))
              held == IF writer THEN final_dataset[p].rows ELSE <<>>
          IN  /\ batch_no' = batch_no + 1
              /\ Len(batch) >= 1 /\ Len(batch) <= BATCH_SIZE
              /\ final_dataset'[p].rows = held \o batch
              /\ file_docs' = file_docs + Len(batch)]_vars

\* The second account's file of three records has gone through in two batches
\* on top of the three records of the first account.
C27_Witness ==
    /\ mpc = "merge" /\ reading
    /\ m_acc = 2
    /\ batch_no = 2
    /\ file_docs = 3
    /\ Len(final_dataset[current_partition].rows) = 6

\* The rows of part file f that the batch loop writes before it ends or raises.
RowsWritten(f) ==
    IF f.exists THEN SubSeq(f.rows, 1, Min(f.good_batches * BATCH_SIZE, Len(f.rows))) ELSE <<>>

\* The rows a merge of partition p writes, in account order.
MergedRows(p) ==
    LET RECURSIVE Go(_)
        Go(a) == IF a \notin account_dirs THEN <<>>
                 ELSE RowsWritten(part_files[a][p]) \o Go(a + 1)
    IN  Go(1)

\* The file of partition p after a merge and shuffle on an empty output path.
MergedAndShuffled(p) ==
    IF MergedRows(p) = <<>> THEN NoFile ELSE File(sample(MergedRows(p)))

\* C28: a merge-and-shuffle run for one partition that has ended leaves the
\* same file whether it ran through at once or was interrupted (during the
\* merge, before the shuffle or during the shuffle's write) and started again
\* on the same part files: the file is the shuffle of the merged rows, and
\* nothing of the interrupted attempt is kept or duplicated.
C28_RestartSafety ==
    (mpc \in {"summary", "done"}) =>
        final_dataset[current_partition] = MergedAndShuffled(current_partition)

\* A run for partition 0 ended after an interruption that had left a file of
\* several rows behind; one of the part files raised part-way.
C28_Witness ==
    /\ mpc = "done"
    /\ restarts = 1
    /\ current_partition = 0
    /\ Unreadable(part_files[1][0])
    /\ Len(final_dataset[0].rows) >= 4

\* C30: when merge_partition has returned, also after a part file raised
\* part-way through its batches, the total it returned equals the number of
\* records in the merged file, and the summary reports the sum of those totals.
C30_CountMatchesFile ==
    /\ Merged => partition_counts[current_partition] =
                     Len(final_dataset[current_partition].rows)
    /\ mpc = "done" =>
          summary.total = SumOver(partition_counts, DOMAIN partition_counts)

\* ------------------------------------------------------------ claims: the filter of queries
\* Both input files are there and their row counts differ.
CountMismatch ==
    /\ queries_file.exists
    /\ neighbors_file.exists
    /\ total_queries # total_neighbors

\* C19: when the queries file and the neighbors file have different row
\* counts, the program goes from reading them straight to its end with exit
\* status 1, and none of its three output files is ever written.
C19_CountMismatchFatal ==
    CountMismatch =>
        /\ fpc \in {"validate", "read", "exited"}
        /\ fpc = "exited" => exit_status = <<1>>
        /\ output_dir = NoOutput

\* The program has ended on a queries file of some rows and a longer neighbors
\* file.
C19_Witness ==
    /\ CountMismatch
    /\ fpc = "exited"
    /\ total_queries >= 1
    /\ total_neighbors > total_queries

\* ------------------------------------------------------------ claims: Balancer
Balanced == bpc \in {"verify", "done"}

T == TARGET_DOCS_PER_FILE

SourcePartitions == 0..(NUM_SOURCE_PARTITIONS - 1)

CappedSinks == NUM_SOURCE_PARTITIONS..(LAST_PARTITION - 1)

\* C1: once the Collect and Distribute phases are complete, the output shards
\* hold as many records as the input shards did, and every input record is in
\* the output as often as it was in the input: none is created or destroyed.
C1_Conservation ==
    Balanced =>
        LET output == AllRows(balanced)
            input == AllRows(final_dataset)
        IN  /\ Len(output) = Len(input)
            /\ SameMultiset(output, input)

\* Records left the source shards, some sink took part of them and the last
\* partition took the rest.
C1_Witness ==
    /\ bpc = "done"
    /\ total_excess >= 3
    /\ Len(balanced[5].rows) > Len(final_dataset[5].rows)
    /\ Len(balanced[LAST_PARTITION].rows) >= Len(final_dataset[LAST_PARTITION].rows) + 2

\* C6: after balancing, a source shard (0..4) that started with more than T
\* records has at most T, and one that started with T or fewer has exactly its
\* original records.
C6_SourceCapping ==
    Balanced =>
        \A p \in SourcePartitions :
            IF Len(final_dataset[p].rows) > T
            THEN Len(balanced[p].rows) <= T
            ELSE balanced[p] = final_dataset[p]

\* One source shard was cut down to T and another, below T, was copied.
C6_Witness ==
    /\ bpc = "done"
    /\ Len(final_dataset[0].rows) = T + 2
    /\ Len(balanced[0].rows) = T
    /\ \E p \in SourcePartitions :
         Len(final_dataset[p].rows) < T /\ balanced[p] = final_dataset[p]

\* C7 as stated: after balancing, every sink shard except the last (5..8) has
\* at most T records, whatever its initial count was.
C7_AsStated ==
    Balanced => \A p \in CappedSinks : Len(balanced[p].rows) <= T

\* C7 amended: after balancing, every sink shard except the last (5..8) that
\* started with at most T records has at most T records; one that started with
\* more than T records is copied unchanged and stays above T.
C7_SinkCapping ==
    Balanced =>
        \A p \in CappedSinks :
            IF Len(final_dataset[p].rows) <= T
            THEN Len(balanced[p].rows) <= T
            ELSE balanced[p] = final_dataset[p]

\* One sink was filled up to T and the next, above T from the start, was copied.
C7_Witness ==
    /\ bpc = "done"
    /\ Len(final_dataset[5].rows) < T
    /\ Len(balanced[5].rows) = T
    /\ Len(final_dataset[6].rows) > T
    /\ balanced[6] = final_dataset[6]

ScenarioSources ==
    /\ T = 10
    /\ \A p \in SourcePartitions : Len(final_dataset[p].rows) = 12

IsBalanceScenario ==
    /\ ScenarioSources
    /\ \A p \in Partitions \ SourcePartitions : Len(final_dataset[p].rows) = 7

\* C10: 5 source shards of 12 records, T=10, 5 sink shards of 7 records: the
\* pool holds 10 records, sinks 5..8 end at 10, 10, 10 and 8 records, the last
\* partition receives nothing and stays at 7, and the run does not stop on an
\* error (with these sources only a sink file that is absent stops a run).
C10_InsufficientExcess ==
    /\ (IsBalanceScenario /\ bpc \in {"distribute", "verify", "done"}) => total_excess = 10
    /\ (IsBalanceScenario /\ Balanced) =>
          /\ <<Len(balanced[5].rows), Len(balanced[6].rows),
               Len(balanced[7].rows), Len(balanced[8].rows)>> = <<10, 10, 10, 8>>
          /\ balanced[LAST_PARTITION] = final_dataset[LAST_PARTITION]
          /\ Len(balanced[LAST_PARTITION].rows) = 7
          /\ excess_offset = total_excess
    /\ (ScenarioSources /\ bpc = "crashed") =>
          \E p \in Partitions \ SourcePartitions : ~final_dataset[p].exists
    /\ IsBalanceScenario => bpc \in {"distribute", "verify", "done"}

C10_Witness == IsBalanceScenario /\ bpc = "done" /\ verified.total = 95

\* Every source shard has been read and none of them exceeds T.
NoSourceExceedsT ==
    \A p \in SourcePartitions :
        final_dataset[p].exists /\ Len(final_dataset[p].rows) <= T

\* C14: when no source shard exceeds T the Balancer does not stop on an error,
\* and once its phases are complete every shard, the last one included, has
\* been copied unchanged to the output.
C14_EmptyPoolCompletes ==
    NoSourceExceedsT =>
        /\ bpc # "crashed"
        /\ Balanced => balanced = final_dataset

\* C15: a step that meets an absent input file never ends the run: the Merger
\* stays in its loop over the account dirs, the Shuffler's caller goes on to the
\* next partition or the summary, and the Balancer's Collect and Distribute
\* loops do not stop on an error.
C15_MissingInputNotFatal ==
    [][/\ (mpc = "merge" /\ m_acc \in account_dirs /\ ~reading /\ ~part_file.exists) =>
            mpc' = "merge"
       /\ (mpc = "shuffle" /\ ~final_dataset[current_partition].exists) =>
            mpc' \in {"merge", "summary"}
       /\ (bpc \in {"collect", "distribute"} /\ ~final_dataset[partition_idx].exists) =>
            bpc' # "crashed"]_vars

\* The rows the Distribute phase appended to the shard of partition p.
Added(p) ==
    SubSeq(balanced[p].rows, Len(final_dataset[p].rows) + 1, Len(balanced[p].rows))

\* C20: when the Distribute phase has ended the cursor into the pool equals the
\* pool size, and the rows appended to the sink shards 5..9, taken in shard
\* order, are exactly the pool: the last shard holds every pool record that no
\* earlier sink took, whatever its own count is.
C20_PoolDrain ==
    Balanced =>
        /\ excess_offset = total_excess
        /\ total_excess = Len(excess_combined)
        /\ concat([i \in 1..(NUM_PARTITIONS - NUM_SOURCE_PARTITIONS) |->
                      Added(NUM_SOURCE_PARTITIONS + i - 1)]) = excess_combined

\* The last shard started at or above T and still received several records
\* after an earlier sink had taken some.
C20_Witness ==
    /\ bpc = "done"
    /\ Len(final_dataset[LAST_PARTITION].rows) >= T
    /\ Len(Added(LAST_PARTITION)) >= 2
    /\ \E p \in CappedSinks : Len(Added(p)) >= 1

\* C21: a pass of the Distribute loop for a sink shard other than the last,
\* with deficit = T - current count: if the deficit is positive and the cursor
\* is before the end of the pool, the shard is written as its original records
\* followed by the min(deficit, remaining pool) pool records that start at the
\* cursor, and the cursor advances by that number; otherwise the shard is
\* written unchanged and the cursor stays.
C21_DistributeStep ==
    [][(bpc = "distribute" /\ partition_idx \in CappedSinks /\ partition_idx' # partition_idx) =>
          LET df == final_dataset[partition_idx].rows
              deficit == T - Len(df)
              remaining_pool == total_excess - excess_offset
              taken == Min(deficit, remaining_pool)
          IN  IF deficit > 0 /\ excess_offset < total_excess
              THEN /\ balanced'[partition_idx] =
                        File(df \o SubSeq(excess_combined, excess_offset + 1, excess_offset + taken))
                   /\ excess_offset' = excess_offset + taken
              ELSE /\ balanced'[partition_idx] = File(df)
                   /\ excess_offset' = excess_offset]_vars

\* Sink 5 took its whole deficit from the middle of the pool's supply, sink 6
\* took what was left, less than its deficit, and sink 7 was written unchanged.
C21_Witness ==
    /\ bpc = "done"
    /\ Len(Added(5)) = T - Len(final_dataset[5].rows)
    /\ Len(Added(5)) >= 1
    /\ Len(Added(6)) >= 1
    /\ Len(Added(6)) < T - Len(final_dataset[6].rows)
    /\ Len(final_dataset[7].rows) < T
    /\ balanced[7] = final_dataset[7]

\* The records of the source shard p beyond the first T, in their order.
Remainder(p) ==
    LET df == final_dataset[p].rows
    IN  IF Len(df) > T THEN SubSeq(df, T + 1, Len(df)) ELSE <<>>

\* The remainders of the source shards p, p+1, .. 4, one after the other.
RECURSIVE RemaindersFrom(_)
RemaindersFrom(p) ==
    IF p \notin SourcePartitions THEN <<>> ELSE Remainder(p) \o RemaindersFrom(p + 1)

\* C22: a source shard of more than T records is written as exactly its first
\* T records in their order; once the excess is combined, the pool is the
\* remainders of the source shards 0..4 one after the other in increasing shard
\* index, each remainder in its original order.
C22_CollectStep ==
    /\ \A p \in SourcePartitions :
          (balanced[p].exists /\ Len(final_dataset[p].rows) > T) =>
              balanced[p].rows = SubSeq(final_dataset[p].rows, 1, T)
    /\ (bpc \in {"distribute", "verify", "done"}) =>
          /\ excess_combined = RemaindersFrom(0)
          /\ total_excess = Len(excess_combined)

\* Two source shards gave remainders of different lengths, with a shard that
\* gave none between them.
C22_Witness ==
    /\ bpc = "distribute"
    /\ Len(Remainder(0)) = 2
    /\ Len(Remainder(1)) = 0
    /\ Len(Remainder(2)) = 1
    /\ excess_combined = Remainder(0) \o Remainder(2) \o Remainder(3) \o Remainder(4)

\* The rows appended so far to the sink shards p, p+1, .. 9, in shard order.
RECURSIVE AddedFrom(_)
AddedFrom(p) == IF p \notin Partitions THEN <<>> ELSE Added(p) \o AddedFrom(p + 1)

\* C29: throughout the Distribute phase 0 <= excess_offset <= total_excess, no
\* step lowers the cursor, and the rows appended to the sink shards so far,
\* in shard order, are exactly the pool records before the cursor: the slices
\* are contiguous and do not overlap, so no pool record is appended twice.
C29_ExcessCursor ==
    /\ []((bpc \in {"distribute", "verify", "done"}) =>
             /\ 0 <= excess_offset /\ excess_offset <= total_excess
             /\ AddedFrom(NUM_SOURCE_PARTITIONS) = SubSeq(excess_combined, 1, excess_offset)
             /\ \A i, j \in 1..Len(excess_combined) :
                   excess_combined[i] = excess_combined[j] => i = j)
    /\ [][bpc = "distribute" => excess_offset' >= excess_offset]_vars

\* In the middle of the Distribute phase two sinks have taken their slices and
\* part of the pool is still to be handed out.
C29_Witness ==
    /\ bpc = "distribute"
    /\ partition_idx = 7
    /\ Len(Added(5)) >= 1
    /\ Len(Added(6)) >= 1
    /\ excess_offset = Len(Added(5)) + Len(Added(6))
    /\ excess_offset < total_excess

\* ------------------------------------------------------------ claims: the stages in sequence
\* The ids of the source accounts: those of every row of every file that loaded.
LoadedIds(a) ==
    UNION {Range(files_by_account[a][i].rows) :
             i \in {j \in DOMAIN files_by_account[a] : files_by_account[a][j].readable}}

SourceIds == UNION {LoadedIds(a) : a \in sorted_account_ids}

====
